---- MODULE Spec2Model ----
(***************************************************************************)
(* A model of decodeless::linear_memory_resource, the linear arena         *)
(* allocator of include/decodeless/allocator.hpp (the definition with      *)
(* size(), capacity() and truncate(), which the adapter and the tests      *)
(* use), over a parent allocator / memory resource that owns one block.    *)
(*                                                                         *)
(* Addresses and sizes are uintptr_t / size_t values: unsigned integers    *)
(* of AddrBits bits, all arithmetic modulo AddrSpace.                      *)
(***************************************************************************)
EXTENDS Integers, Naturals, Sequences, FiniteSets, TLC

\* ---------------------------------------------------------------- bounds

\* Width of uintptr_t / size_t in the model.
AddrBits == 5

AddrSpace == 2 ^ AddrBits

\* The highest address the cursor and the end of the block reach in Spec
\* when the parent can reallocate (without reallocate the block never grows
\* and the whole address space is open).
MaxAddr == 14

\* Request sizes: none, one byte, a word of MaxBytes bytes and two words.
MaxBytes == 4

ByteCounts == {0, 1, MaxBytes, 2 * MaxBytes}

\* Alignments are powers of two.
Aligns == {1, 4, 8}

\* Base addresses the parent hands out: a null / aligned base and an odd one.
Bases == {0, 5}

\* Initial sizes the arena is constructed with.
InitialSizes == {0, 4, 7, 23}

\* max_size() of the parent that declares one.
ParentMaxSize == 6

\* The number of calls in a run that is replayed after reset().
MaxRun == 3

\* The number of memory_resource_ref objects.
MaxViews == 2

\* The number of allocate calls followed once views exist.
MaxCalls == 2

\* The number of elements create::array is asked for by count.
MaxCount == 2

\* The sequences create::array is given as a range.
Ranges == {<< >>, <<3>>, <<1, 2>>, <<1, 2, 3, 4, 5>>}

\* ------------------------------------------------------- parent allocator

\* The capabilities of ParentAllocator, fixed at compile time:
\* realloc: it has reallocate(); hasMax: it has max_size().
FixedParent == [realloc |-> FALSE, hasMax |-> FALSE, max |-> 0]

ReallocParent == [realloc |-> TRUE, hasMax |-> FALSE, max |-> 0]

ReallocMaxParent == [realloc |-> TRUE, hasMax |-> TRUE, max |-> ParentMaxSize]

ParentTypes == {FixedParent, ReallocParent, ReallocMaxParent}

VARIABLES
    parentType,  \* the capabilities of ParentAllocator
    m_parent,    \* the parent's block: [size, addr]
    m_begin,     \* std::byte* m_begin
    m_next,      \* uintptr_t m_next
    m_end,       \* uintptr_t m_end
    last,        \* the operation just performed and its outcome
    issued,      \* the range returned most recently since the last reset: <<address, size>>
    run,         \* the calls of a first run that returned: <<bytes, align, address>> each
    pos,         \* 0 in a first run; k > 0 once reset() ended it: the call replayed next is run[k]
    other,       \* a second arena object: none, a live one with its own block, or the moved-from one
    released,    \* how often each block was passed to the parent's deallocate
    acquired,    \* how often each block was returned by the parent's allocate
    alive,       \* the arena in use has not been destroyed
    views,       \* the memory_resource_ref objects made so far
    via,         \* how the last allocate was called: directly, through a view, by create::array
    built,       \* the elements the last create::array constructed, in slot order
    calls        \* the number of allocate calls made directly, through views and by create::array

vars == <<parentType, m_parent, m_begin, m_next, m_end, last, issued, run, pos, other,
          released, acquired, alive, views, via, built, calls>>

\* The views and what the construction helpers made.
helpers == <<views, via, built, calls>>

\* The objects and blocks beside the arena in use.
life == <<other, released, acquired, alive>>

\* What the arena's own operations never touch.
beyond == <<run, pos, life, helpers>>

\* ------------------------------------------------------------ arithmetic

Mod(x) == ((x % AddrSpace) + AddrSpace) % AddrSpace

RECURSIVE BitAnd(_, _)
\* a & b on non-negative integers.
BitAnd(a, b) ==
    IF a = 0 \/ b = 0
    THEN 0
    ELSE (IF a % 2 = 1 /\ b % 2 = 1 THEN 1 ELSE 0) + 2 * BitAnd(a \div 2, b \div 2)

\* -static_cast<ptrdiff_t>(x), as a bit pattern of AddrBits bits.
Negate(x) == Mod(0 - x)

Max(a, b) == IF a >= b THEN a ELSE b

\* size(): m_next - m_begin.
size == Mod(m_next - m_begin)

\* capacity(): m_end - m_begin.
capacity == Mod(m_end - m_begin)

\* -------------------------------------------------------- allocate, parts

\* uintptr_t result = m_next + ((-static_cast<ptrdiff_t>(m_next)) & (align - 1));
AlignedResultUnaligned(next, align) == next

AlignedResultRoundedDown(next, align) == Mod(next - BitAnd(next, Mod(align - 1)))

AlignedResult(next, align) == Mod(next + BitAnd(Negate(next), Mod(align - 1)))

\* uintptr_t newNext = result + bytes;
NewNextNotAdvanced(result, bytes) == result

NewNext(result, bytes) == Mod(result + bytes)

\* if (newNext > m_end)
OverflowsOffByOne(newNext, end) == newNext > end + 1

OverflowsAtTheEnd(newNext, end) == newNext >= end

Overflows(newNext, end) == newNext > end

\* size_t newSize = std::max(size(), 2 * capacity());
GrowTarget == Max(size, Mod(2 * capacity))

\* if (newSize > m_parent.max_size() && size() < m_parent.max_size())
\*     newSize = m_parent.max_size();
ClampToMax(newSize) ==
    IF parentType.hasMax /\ newSize > parentType.max /\ size < parentType.max
    THEN parentType.max
    ELSE newSize

\* m_end = reinterpret_cast<uintptr_t>(m_begin) + newSize;
EndAfterGrowStale(newSize) == m_end

EndAfterGrow(newSize) == Mod(m_begin + newSize)

\* m_next after a throw: the throw sites come before "m_next = newNext".
NextAfterThrowCommitted(newNext) == newNext

NextAfterThrow(newNext) == m_next

\* What allocate throws when the parent is not reallocatable.
ThrownAtOverflow == "std::bad_alloc"

\* What allocate and truncate throw when reallocate returned another address.
ThrownAtAddressCheckDistinct == "address_changed"

ThrownAtAddressCheck == "std::bad_alloc"

\* What a parent's reallocate throws when it cannot provide the size.
ThrownByParent == "std::bad_alloc"

\* ------------------------------------------------- the parent's reallocate

\* The address a parent that moves the block returns: any address but base.
MovedAddr(base) == Mod(base + AddrSpace \div 2)

\* What reallocate(m_begin, n) may do: grow or shrink in place and return
\* m_begin ("same"), move the block and return another address ("moved"), or
\* throw ("throw"). A parent that declares max_size() cannot provide more.
ReallocOutcomes(n) ==
    IF parentType.hasMax /\ n > parentType.max
    THEN {"throw"}
    ELSE {"same", "moved", "throw"}

\* The address reallocate returns when it returns.
ReallocResult(o) == IF o = "same" THEN m_begin ELSE MovedAddr(m_begin)

\* truncate(): m_end = m_next, after the parent's reallocate to size().
EndAfterTruncateKept == m_end

EndAfterTruncate == m_next

\* if (addr != m_begin) throw std::bad_alloc();
AddressCheckSkipped(addr) == TRUE

AddressUnchanged(addr) == addr = m_begin

\* The parent's block after reallocate(m_begin, n) with outcome o: allocate
\* and truncate call reallocate once. (A caller that tried again after a
\* refusal would leave the block resized.)
ParentAfterReallocRetried(n, o) ==
    IF o = "moved" THEN [size |-> n, addr |-> MovedAddr(m_begin)]
    ELSE [size |-> n, addr |-> m_begin]

ParentAfterRealloc(n, o) ==
    IF o = "same" THEN [size |-> n, addr |-> m_begin]
    ELSE IF o = "moved" THEN [size |-> n, addr |-> MovedAddr(m_begin)]
    ELSE m_parent

\* void reset() { m_next = reinterpret_cast<uintptr_t>(m_begin); }
NextAfterResetKept == m_next

NextAfterReset == m_begin

\* deallocate(p, bytes) does nothing: m_next stays, also when p + bytes is the
\* cursor (the range issued last).
NextAfterDeallocateRewound(p, bytes) == IF Mod(p + bytes) = m_next THEN p ELSE m_next

NextAfterDeallocate(p, bytes) == m_next

NoCall == 0 - 1

NoAddr == 0 - 1

\* allocate was called on the arena itself.
Direct == [how |-> "direct", view |-> 0, range |-> << >>, count |-> 0,
           elem |-> [size |-> 0, align |-> 1]]

\* No second arena object.
NoObject == [state |-> "none", m_begin |-> NoAddr, m_next |-> NoAddr, m_end |-> NoAddr]

\* The highest address Spec lets an arena over a parent of type t reach.
AddrLimit(t) == IF t.realloc /\ MaxAddr < AddrSpace THEN MaxAddr ELSE AddrSpace - 1

\* ------------------------------------------------------------------ Init

\* linear_memory_resource(initialSize, parent): m_begin is what the parent's
\* allocate(initialSize) returned, m_next = m_begin, m_end = m_begin + initialSize.
Init ==
    \E t \in ParentTypes, base \in Bases, initialSize \in InitialSizes :
        /\ t.hasMax => initialSize <= t.max
        /\ base + initialSize <= AddrLimit(t)
        /\ parentType = t
        /\ m_parent = [size |-> initialSize, addr |-> base]
        /\ m_begin = base
        /\ m_next = base
        /\ m_end = Mod(base + initialSize)
        /\ last = [op |-> "construct", status |-> "ok", site |-> "none",
                   bytes |-> initialSize, align |-> 1, result |-> base,
                   request |-> initialSize, outcome |-> "same"]
        /\ issued = << >>
        /\ run = << >>
        /\ pos = 0
        /\ other = NoObject
        /\ released = [main |-> 0, other |-> 0]
        /\ acquired = [main |-> 1, other |-> 0]
        /\ alive = TRUE
        /\ views = << >>
        /\ via = Direct
        /\ built = << >>
        /\ calls = 0

\* --------------------------------------------------------------- allocate

\* void* allocate(std::size_t bytes, std::size_t align); o is what the
\* parent's reallocate does if it is called.
AllocateOp(bytes, align, o) ==
    LET result  == AlignedResult(m_next, align)
        newNext == NewNext(result, bytes)
        newSize == ClampToMax(GrowTarget)
        ok(req) == [op |-> "allocate", status |-> "ok", site |-> "none",
                    bytes |-> bytes, align |-> align, result |-> result,
                    request |-> req, outcome |-> o]
        thrown(what, where, req) ==
                   [op |-> "allocate", status |-> what, site |-> where,
                    bytes |-> bytes, align |-> align, result |-> NoAddr,
                    request |-> req, outcome |-> o]
    IN  /\ UNCHANGED <<parentType, m_begin>>
        /\ IF ~Overflows(newNext, m_end)
           THEN \* fits: no call to the parent
                /\ o = "none"
                /\ m_next' = newNext
                /\ last' = ok(NoCall)
                /\ issued' = <<result, bytes>>
                /\ UNCHANGED <<m_parent, m_end>>
           ELSE IF ~parentType.realloc
           THEN \* throw std::bad_alloc()
                /\ o = "none"
                /\ m_next' = NextAfterThrow(newNext)
                /\ last' = thrown(ThrownAtOverflow, "overflow", NoCall)
                /\ UNCHANGED <<m_parent, m_end, issued>>
           ELSE \* reallocate_bytes(m_parent, m_begin, newSize)
                /\ o \in ReallocOutcomes(newSize)
                /\ m_parent' = ParentAfterRealloc(newSize, o)
                /\ IF o # "throw" /\ AddressUnchanged(ReallocResult(o))
                   THEN /\ m_end' = EndAfterGrow(newSize)
                        /\ m_next' = newNext
                        /\ last' = ok(newSize)
                        /\ issued' = <<result, bytes>>
                   ELSE /\ m_next' = NextAfterThrow(newNext)
                        /\ last' = IF o = "moved"
                                   THEN thrown(ThrownAtAddressCheck, "address", newSize)
                                   ELSE thrown(ThrownByParent, "parent", newSize)
                        /\ UNCHANGED <<m_end, issued>>

\* The request stays in the part of the address space Spec explores: the
\* aligned start plus the size, and the end of the block the parent would be
\* asked for, are at most AddrLimit (so nothing wraps around AddrSpace).
InRange(bytes, align) ==
    LET pad == BitAnd(Negate(m_next), align - 1)
    IN  /\ m_next + pad + bytes <= AddrLimit(parentType)
        /\ (m_next + pad + bytes > m_end /\ parentType.realloc)
              => m_begin + ClampToMax(Max(size, 2 * capacity)) <= AddrLimit(parentType)

Allocate ==
    \E bytes \in ByteCounts, align \in Aligns, o \in {"none", "same", "moved", "throw"} :
        /\ InRange(bytes, align)
        /\ AllocateOp(bytes, align, o)
        /\ UNCHANGED beyond

\* ------------------------------------------------------------- deallocate

\* void deallocate(void* p, std::size_t bytes): does nothing.
DeallocateOp(p, bytes) ==
    /\ m_next' = NextAfterDeallocate(p, bytes)
    /\ last' = [op |-> "deallocate", status |-> "ok", site |-> "none",
                bytes |-> bytes, align |-> 1, result |-> p,
                request |-> NoCall, outcome |-> "none"]
    /\ UNCHANGED <<parentType, m_parent, m_begin, m_end, issued>>

\* The arguments deallocate is called with: the start of the block with a
\* word, or the range issued last.
DeallocateArgs ==
    {<<m_begin, MaxBytes>>} \cup (IF issued = << >> THEN {} ELSE {issued})

Deallocate ==
    \E a \in DeallocateArgs :
        /\ DeallocateOp(a[1], a[2])
        /\ UNCHANGED beyond

\* ------------------------------------------------------------------ reset

\* void reset() { m_next = m_begin; }
ResetOp ==
    /\ m_next' = NextAfterReset
    /\ issued' = << >>
    /\ last' = [op |-> "reset", status |-> "ok", site |-> "none",
                bytes |-> 0, align |-> 1, result |-> NoAddr,
                request |-> NoCall, outcome |-> "none"]
    /\ UNCHANGED <<parentType, m_parent, m_begin, m_end>>

Reset == ResetOp /\ UNCHANGED beyond

\* --------------------------------------------------------------- truncate

\* void truncate() requires realloc_resource_or_allocator<ParentAllocator>:
\* reallocate_bytes(m_parent, m_begin, size()), the address check, m_end = m_next.
TruncateOp(o) ==
    LET done == o # "throw" /\ AddressUnchanged(ReallocResult(o))
    IN  /\ parentType.realloc
        /\ o \in ReallocOutcomes(size)
        /\ m_parent' = ParentAfterRealloc(size, o)
        /\ m_end' = IF done THEN EndAfterTruncate ELSE m_end
        /\ last' = [op |-> "truncate",
                    status |-> IF done THEN "ok"
                               ELSE IF o = "moved" THEN ThrownAtAddressCheck
                               ELSE ThrownByParent,
                    site |-> IF done THEN "none"
                             ELSE IF o = "moved" THEN "address" ELSE "parent",
                    bytes |-> 0, align |-> 1, result |-> NoAddr,
                    request |-> size, outcome |-> o]
        /\ UNCHANGED <<parentType, m_begin, m_next, issued>>

Truncate ==
    \E o \in {"same", "moved", "throw"} :
        /\ TruncateOp(o)
        /\ UNCHANGED beyond

Next == Allocate \/ Deallocate \/ Reset \/ Truncate

Spec == Init /\ [][Next]_vars

\* ------------------------------------ requests of any size, at any cursor

\* size_t bytes: the sizes of Spec, and sizes near the top of size_t.
WrapByteCounts == ByteCounts \cup {AddrSpace - MaxBytes, AddrSpace - 1}

\* allocate(bytes, align) wherever the cursor is: result and newNext are
\* uintptr_t sums, taken modulo AddrSpace.
AllocateAnywhere ==
    \E bytes \in WrapByteCounts, align \in Aligns, o \in {"none", "same", "moved", "throw"} :
        /\ AllocateOp(bytes, align, o)
        /\ UNCHANGED beyond

NextWrap == AllocateAnywhere \/ Reset

\* The arenas whose block never grows: the end of the block stays where the
\* constructor put it, whatever the cursor does.
InitWrap == Init /\ ~parentType.realloc

SpecWrap == InitWrap /\ [][NextWrap]_vars

\* ------------------------------------------------- move and destruction

\* linear_memory_resource(linear_memory_resource&&) = default and
\* operator=(linear_memory_resource&&) = default: the destination's members
\* are moved from the source's, one by one.
MovedIntoRewound(src) == [src EXCEPT !.m_next = src.m_begin]

MovedInto(src) == src

\* The source after a defaulted move: moving a pointer or an integer copies
\* it, so m_begin, m_next and m_end still hold the block's addresses.
MovedFrom(src) == [src EXCEPT !.state = "moved-from"]

\* The members of the arena in use, as an object.
This == [state |-> "live", m_begin |-> m_begin, m_next |-> m_next, m_end |-> m_end]

\* Where the parent puts the block of a second arena.
OtherBase == AddrSpace - 2

MoveRecord(op) ==
    [op |-> op, status |-> "ok", site |-> "none", bytes |-> 0, align |-> 1,
     result |-> NoAddr, request |-> NoCall, outcome |-> "none"]

\* The destination takes the source's members; it is the arena in use from
\* here on, the source is kept as the other object.
MoveOp(op) ==
    /\ m_begin' = MovedInto(This).m_begin
    /\ m_next' = MovedInto(This).m_next
    /\ m_end' = MovedInto(This).m_end
    /\ other' = MovedFrom(This)
    /\ last' = MoveRecord(op)
    /\ UNCHANGED <<parentType, m_parent, issued, run, pos, released, acquired, alive, helpers>>

\* linear_memory_resource moved_memory = std::move(memory);
MoveConstruct ==
    /\ alive
    /\ other.state = "none"
    /\ MoveOp("move-construct")

\* A second arena is constructed over a block of its own, of one byte.
ConstructOther ==
    /\ other.state = "none"
    /\ other' = [state |-> "live", m_begin |-> OtherBase, m_next |-> OtherBase,
                 m_end |-> Mod(OtherBase + 1)]
    /\ acquired' = [acquired EXCEPT !.other = @ + 1]
    /\ last' = [MoveRecord("construct-other") EXCEPT !.request = 1, !.result = OtherBase]
    /\ UNCHANGED <<parentType, m_parent, m_begin, m_next, m_end, issued, run, pos,
                   released, alive, helpers>>

\* moved_assigned_memory = std::move(memory); the members the destination had
\* are overwritten, nothing is called on its block.
MoveAssign ==
    /\ alive
    /\ other.state = "live"
    /\ MoveOp("move-assign")

\* ~linear_memory_resource() { m_parent.deallocate(m_begin, capacity()); }
\* of the moved-from object: its m_begin is the block of the arena in use.
DestroyMovedFrom ==
    /\ other.state = "moved-from"
    /\ released' = [released EXCEPT !.main = @ + 1]
    /\ other' = [NoObject EXCEPT !.state = "destroyed"]
    /\ last' = [MoveRecord("destroy") EXCEPT !.request = Mod(other.m_end - other.m_begin),
                                             !.result = other.m_begin]
    /\ UNCHANGED <<parentType, m_parent, m_begin, m_next, m_end, issued, run, pos,
                   acquired, alive, helpers>>

\* The byte count the destructor passes to the parent's deallocate.
ReleasedSizeInUse == size

ReleasedSize == capacity

\* ~linear_memory_resource() { m_parent.deallocate(m_begin, capacity()); }
\* of the arena in use.
Destroy ==
    /\ alive
    /\ alive' = FALSE
    /\ released' = [released EXCEPT !.main = @ + 1]
    /\ last' = [MoveRecord("destroy") EXCEPT !.request = ReleasedSize, !.result = m_begin]
    /\ UNCHANGED <<parentType, m_parent, m_begin, m_next, m_end, issued, run, pos,
                   other, acquired, helpers>>

\* SpecMove follows the arena in use while it is the only object, and for
\* one call after a move: the moved-from object is destroyed no later than
\* that, and a second arena is assigned to right after its construction.
OneCallAfterMove ==
    /\ alive
    /\ \/ other.state = "none"
       \/ other.state = "moved-from" /\ last.op \in {"move-construct", "move-assign"}

AllocateAroundMove == OneCallAfterMove /\ Allocate

ResetAroundMove == OneCallAfterMove /\ Reset

NextMove ==
    \/ AllocateAroundMove \/ ResetAroundMove
    \/ MoveConstruct \/ ConstructOther \/ MoveAssign \/ DestroyMovedFrom \/ Destroy

SpecMove == Init /\ [][NextMove]_vars

\* ------------------------------- the parent as memory resource or allocator

\* What ParentAllocator is: a memory resource, with allocate(bytes, align)
\* and reallocate(ptr, bytes, align), or an allocator, with allocate(n) and
\* reallocate(ptr, n). Both have deallocate(ptr, bytes).
Shapes == {"resource", "allocator"}

\* allocate_bytes and reallocate_bytes: resOrAlloc.allocate(bytes, 1u),
\* resOrAlloc.reallocate(original, size, 1u) for a memory resource; an
\* allocator is given no alignment (0 here).
ForwardedAlignOfRequest(shape) == IF shape = "resource" THEN last.align ELSE 0

ForwardedAlign(shape) == IF shape = "resource" THEN 1 ELSE 0

\* The call a parent of the given shape received in the step just taken.
ParentCall(shape) ==
    IF last.request = NoCall
    THEN [fn |-> "none", ptr |-> NoAddr, bytes |-> 0, align |-> 0]
    ELSE IF last.op = "construct"
    THEN [fn |-> "allocate", ptr |-> NoAddr, bytes |-> last.request,
          align |-> ForwardedAlign(shape)]
    ELSE IF last.op \in {"allocate", "truncate"}
    THEN [fn |-> "reallocate", ptr |-> m_begin, bytes |-> last.request,
          align |-> ForwardedAlign(shape)]
    ELSE [fn |-> "deallocate", ptr |-> last.result, bytes |-> last.request, align |-> 0]

\* --------------------------------------------- an arena, used and destroyed

\* Any call on the arena while it exists.
Use == alive /\ Next

NextLife == Use \/ Destroy

SpecLife == Init /\ [][NextLife]_vars

\* ------------------------------------- memory_resource_ref and create::array

\* Element types, by sizeof(T) and alignof(T): std::byte / uint8_t and int.
ByteType == [size |-> 1, align |-> 1]

IntType == [size |-> 4, align |-> 4]

ElemTypes == {ByteType, IntType}

DoubleType == [size |-> 8, align |-> 8]

\* The types create::object is called for.
ObjectTypes == {IntType, DoubleType}

\* m_resource->allocate(n * sizeof(T), alignof(T)): the byte count.
ElementBytesUnscaled(n, T) == n

ElementBytes(n, T) == n * T.size

\* Where an arena object lives: two objects have two addresses.
AddressOf(a) == IF a = "this" THEN 1 ELSE 2

\* The arena object at an address.
Deref(p) == IF p = AddressOf("this") THEN This ELSE other

\* memory_resource_ref(resource_type& resource) : m_resource(&resource) {}
\* ("of" remembers the arena the view was made of.)
ViewOf(a, T) == [m_resource |-> AddressOf(a), T |-> T, of |-> a]

\* The implicit copy constructor copies m_resource.
ViewCopyDetached(v) == [v EXCEPT !.m_resource = AddressOf("other")]

ViewCopy(v) == v

\* template <class U> memory_resource_ref(const memory_resource_ref<U, MemoryResource>& other)
\*     : m_resource(&other.resource()) {}
ViewRebind(v, T) == [m_resource |-> v.m_resource, T |-> T, of |-> v.of]

\* bool operator==(const memory_resource_ref& other) const
\*     { return m_resource == other.m_resource; }
ViewEqualsByContent(a, b) ==
    LET x == Deref(a.m_resource)
        y == Deref(b.m_resource)
    IN  <<x.m_begin, x.m_next, x.m_end>> = <<y.m_begin, y.m_next, y.m_end>>

ViewEquals(a, b) == a.m_resource = b.m_resource

ViewRecord(op) == MoveRecord(op)

\* linear_allocator<T> alloc(res); the second arena gets linear_allocator<int>
\* only, as r1 in the Equality test.
MakeView ==
    \E a \in {"this", "other"}, T \in ElemTypes :
        /\ Len(views) < MaxViews
        /\ calls = 0
        /\ a = "other" => other.state = "live" /\ T = IntType
        /\ views' = Append(views, ViewOf(a, T))
        /\ last' = ViewRecord("view")
        /\ UNCHANGED <<parentType, m_parent, m_begin, m_next, m_end, issued, run, pos,
                       life, via, built, calls>>

\* const linear_allocator<T> alloc_c(alloc);
CopyView ==
    \E i \in DOMAIN views :
        /\ Len(views) < MaxViews
        /\ calls = 0
        /\ views' = Append(views, ViewCopy(views[i]))
        /\ last' = ViewRecord("view-copy")
        /\ UNCHANGED <<parentType, m_parent, m_begin, m_next, m_end, issued, run, pos,
                       life, via, built, calls>>

\* allocator_rebind_t<T, Allocator>(allocator)
RebindView ==
    \E i \in DOMAIN views, T \in ElemTypes :
        /\ Len(views) < MaxViews
        /\ calls = 0
        /\ views' = Append(views, ViewRebind(views[i], T))
        /\ last' = ViewRecord("view-rebind")
        /\ UNCHANGED <<parentType, m_parent, m_begin, m_next, m_end, issued, run, pos,
                       life, via, built, calls>>

\* A second arena over a parent that hands out the same address, as
\* EqualityTestAlloc does for r0 and r1; it has seen the same calls, so its
\* members have the values of the arena in use.
ConstructTwin ==
    /\ other.state = "none"
    /\ calls = 0
    /\ other' = This
    /\ acquired' = [acquired EXCEPT !.other = @ + 1]
    /\ last' = [ViewRecord("construct-other") EXCEPT !.request = capacity, !.result = m_begin]
    /\ UNCHANGED <<parentType, m_parent, m_begin, m_next, m_end, issued, run, pos,
                   released, alive, helpers>>

\* One more allocate call is followed.
Called ==
    /\ calls < MaxCalls
    /\ calls' = calls + 1

\* alloc.allocate(n * sizeof(T), alignof(T)) on the arena itself.
DirectAllocate ==
    \E n \in 0 .. MaxCount, T \in ElemTypes, o \in {"none", "same", "moved", "throw"} :
        /\ Called
        /\ InRange(n * T.size, T.align)
        /\ AllocateOp(n * T.size, T.align, o)
        /\ via' = Direct
        /\ UNCHANGED <<run, pos, life, views, built>>

\* The same allocate on the second arena; only a request that fits is followed.
OtherAllocate(bytes, align) ==
    LET result == AlignedResult(other.m_next, align)
        newNext == NewNext(result, bytes)
    IN  /\ other.state = "live"
        /\ result >= other.m_next
        /\ newNext >= result
        /\ ~Overflows(newNext, other.m_end)
        /\ other' = [other EXCEPT !.m_next = newNext]
        /\ last' = [ViewRecord("allocate-other") EXCEPT !.bytes = bytes, !.align = align,
                                                       !.result = result]
        /\ UNCHANGED <<parentType, m_parent, m_begin, m_next, m_end, issued>>

\* The allocate of the arena at address p.
AllocateAt(p, bytes, align, o) ==
    IF p = AddressOf("this")
    THEN /\ InRange(bytes, align)
         /\ AllocateOp(bytes, align, o)
         /\ UNCHANGED other
    ELSE OtherAllocate(bytes, align)

\* T* allocate(std::size_t n)
\*     { return static_cast<T*>(m_resource->allocate(n * sizeof(T), alignof(T))); }
ViewAllocate ==
    \E i \in DOMAIN views, n \in 0 .. MaxCount, o \in {"none", "same", "moved", "throw"} :
        /\ Called
        /\ AllocateAt(views[i].m_resource, ElementBytes(n, views[i].T), views[i].T.align, o)
        /\ via' = [how |-> "view", view |-> i, range |-> << >>, count |-> n,
                   elem |-> views[i].T]
        /\ UNCHANGED <<run, pos, released, acquired, alive, views, built>>

\* The resource a create:: helper is given: the arena itself (0, the
\* from_resource form) or an allocator (the from_allocator form, which rebinds
\* it to T).
Targets == {0} \cup DOMAIN views

TargetOf(i) == IF i = 0 THEN AddressOf("this") ELSE views[i].m_resource

\* The elements that exist when create::array is left: construct_at runs
\* after allocate() returned, so not at all when allocate() threw.
ElementsBuiltRegardless(status, elems) == elems

ElementsBuilt(status, elems) == IF status = "ok" THEN elems ELSE << >>

\* for (auto& obj : result) std::construct_at<T>(&obj);
ValueInitialized(n) == [k \in 1 .. n |-> 0]

\* std::span<T> array(MemoryResource& memoryResource, size_t size)
\*     std::span<T> result(linear_allocator<T>(memoryResource).allocate(size), size);
CreateArray ==
    \E i \in Targets, n \in 1 .. MaxCount, T \in ElemTypes,
       o \in {"none", "same", "moved", "throw"} :
        /\ Called
        /\ AllocateAt(TargetOf(i), ElementBytes(n, T), T.align, o)
        /\ built' = ElementsBuilt(last'.status, ValueInitialized(n))
        /\ via' = [how |-> "array", view |-> i, range |-> << >>, count |-> n, elem |-> T]
        /\ UNCHANGED <<run, pos, released, acquired, alive, views>>

\* The value create::object is given: 42.0 in the Readme test.
ObjectInit == 42

\* T* object(MemoryResource& memoryResource, const T& init)
\*     return std::construct_at<T>(
\*         linear_allocator<T, MemoryResource>(memoryResource).allocate(1), init);
CreateObject ==
    \E i \in Targets, T \in ObjectTypes, o \in {"none", "same", "moved", "throw"} :
        /\ Called
        /\ AllocateAt(TargetOf(i), ElementBytes(1, T), T.align, o)
        /\ built' = ElementsBuilt(last'.status, <<ObjectInit>>)
        /\ via' = [how |-> "object", view |-> i, range |-> << >>, count |-> 1, elem |-> T]
        /\ UNCHANGED <<run, pos, released, acquired, alive, views>>

\* The range of the ArrayFromView test: iota | transform([i = 0](int n) mutable
\* { return std::exchange(i, i + n); }). l is the lambda's i; each element
\* read is one call of the lambda.
RECURSIVE Traverse(_, _)
Traverse(ints, l) ==
    IF ints = << >> THEN << >> ELSE <<l>> \o Traverse(Tail(ints), l + Head(ints))

RECURSIVE StateAfterTraverse(_, _)
StateAfterTraverse(ints, l) ==
    IF ints = << >> THEN l ELSE StateAfterTraverse(Tail(ints), l + Head(ints))

\* auto size = std::ranges::size(range): asks the sized range, reads no element.
StateAfterSizeByCounting(ints, l) == StateAfterTraverse(ints, l)

StateAfterSize(ints, l) == l

SizeOfRange(ints) == Len(ints)

\* std::span<T> array(MemoryResource& memoryResource, Range&& range)
\*     auto out = result.begin();
\*     for (auto& in : range) std::construct_at<T>(&*out++, in);
CreateArrayFromRange ==
    \E i \in Targets, ints \in Ranges, o \in {"none", "same", "moved", "throw"} :
        /\ Called
        /\ AllocateAt(TargetOf(i), ElementBytes(SizeOfRange(ints), IntType), IntType.align, o)
        /\ built' = ElementsBuilt(last'.status, Traverse(ints, StateAfterSize(ints, 0)))
        /\ via' = [how |-> "array-from-range", view |-> i, range |-> ints,
                   count |-> SizeOfRange(ints), elem |-> IntType]
        /\ UNCHANGED <<run, pos, released, acquired, alive, views>>

NextViews ==
    \/ MakeView
    \/ CopyView
    \/ RebindView
    \/ ConstructTwin
    \/ DirectAllocate
    \/ ViewAllocate
    \/ CreateObject
    \/ CreateArray
    \/ CreateArrayFromRange

\* The arenas the views are made of: those over a parent whose allocate
\* returned the null address, as EqualityTestAlloc's does.
InitViews == Init /\ m_begin = 0

SpecViews == InitViews /\ [][NextViews]_vars

\* ------------------------------------------------ memory_resource_adapter

\* A call made on the adapter, with the arguments it was given (but for the
\* alignment given to do_deallocate, which no one reads).
Adapter(args) == [Direct EXCEPT !.how = "adapter", !.range = args]

\* void* do_allocate(std::size_t bytes, std::size_t align)
\*     { return m_resource.allocate(bytes, align); }
DoAllocateAlignOfMaxAlign(align) == 8

DoAllocateAlign(align) == align

AdapterAllocate ==
    \E bytes \in ByteCounts, align \in Aligns, o \in {"none", "same", "moved", "throw"} :
        /\ other.state = "none"
        /\ InRange(bytes, DoAllocateAlign(align))
        /\ AllocateOp(bytes, DoAllocateAlign(align), o)
        /\ via' = Adapter(<<bytes, align>>)
        /\ UNCHANGED <<run, pos, life, views, built, calls>>

\* void do_deallocate(void* p, std::size_t bytes, [[maybe_unused]] std::size_t align)
\*     { m_resource.deallocate(p, bytes); }
AdapterDeallocate ==
    \E a \in DeallocateArgs, align \in Aligns :
        /\ other.state = "none"
        /\ DeallocateOp(a[1], a[2])
        /\ via' = Adapter(<<a[1], a[2]>>)
        /\ UNCHANGED <<run, pos, life, views, built, calls>>

\* void reset() { this->backing_resource().reset(); }
AdapterReset ==
    /\ other.state = "none"
    /\ ResetOp
    /\ via' = Adapter(<< >>)
    /\ UNCHANGED <<run, pos, life, views, built, calls>>

\* void truncate() { this->backing_resource().truncate(); }
AdapterTruncate ==
    \E o \in {"same", "moved", "throw"} :
        /\ other.state = "none"
        /\ TruncateOp(o)
        /\ via' = Adapter(<< >>)
        /\ UNCHANGED <<run, pos, life, views, built, calls>>

\* A second adapter, made while nothing is in use; its arena has the members
\* of the first one's. The calls are followed while there is one adapter.
AdapterTwin == size = 0 /\ ConstructTwin

\* The adapter objects.
Adapters == {"this"} \cup (IF other.state = "live" THEN {"other"} ELSE {})

\* bool do_is_equal(const std::pmr::memory_resource& other) const noexcept
\*     { return this == &other; }
DoIsEqual(a, b) == AddressOf(a) = AddressOf(b)

NextAdapter ==
    \/ AdapterAllocate
    \/ AdapterDeallocate
    \/ AdapterReset
    \/ AdapterTruncate
    \/ AdapterTwin

SpecAdapter == Init /\ [][NextAdapter]_vars

----
\* ----------------------------------------------- a run, reset, the run again

\* allocate in a first run: a call that returns, recorded with what it returned.
RecordAllocate ==
    \E bytes \in ByteCounts, align \in Aligns, o \in {"none", "same", "moved", "throw"} :
        /\ pos = 0
        /\ Len(run) < MaxRun
        /\ InRange(bytes, align)
        /\ AllocateOp(bytes, align, o)
        /\ last'.status = "ok"
        /\ run' = Append(run, <<bytes, align, last'.result>>)
        /\ UNCHANGED <<pos, life, helpers>>

\* reset() ends the first run.
ReplayReset ==
    /\ pos = 0
    /\ run # << >>
    /\ ResetOp
    /\ pos' = 1
    /\ UNCHANGED <<run, life, helpers>>

\* The next call of the first run is made again; a call that throws ends the
\* replay.
ReplayAllocate ==
    \E o \in {"none", "same", "moved", "throw"} :
        /\ pos \in 1 .. Len(run)
        /\ InRange(run[pos][1], run[pos][2])
        /\ AllocateOp(run[pos][1], run[pos][2], o)
        /\ pos' = IF last'.status = "ok" THEN pos + 1 ELSE Len(run) + 1
        /\ UNCHANGED <<run, life, helpers>>

NextReplay == RecordAllocate \/ ReplayReset \/ ReplayAllocate \/ Truncate

SpecReplay == Init /\ [][NextReplay]_vars

\* ================================================================ claims

\* The smallest multiple of align at or above x.
SmallestMultipleAtOrAbove(x, align) ==
    CHOOSE r \in x .. (x + align - 1) : r % align = 0

\* The step just taken was allocate(last'.bytes, last'.align).
AllocateStep == last'.op = "allocate"

\* The total usage once the request of that step is committed.
Needed == SmallestMultipleAtOrAbove(m_next, last'.align) - m_begin + last'.bytes

\* C1: in every reachable state beginAddress <= cursor <= endAddress,
\* i.e. size() <= capacity().
C1_CursorWithinBlock == m_begin <= m_next /\ m_next <= m_end

\* C2: a successful allocate(size, align) with size > 0 returns the smallest
\* multiple of align at or above the cursor before the call (a multiple of
\* align, not below that cursor, less than align above it), and the cursor
\* after the call is the returned address plus size.
C2_AlignedMinimalPadding ==
    [][(AllocateStep /\ last'.status = "ok" /\ last'.bytes > 0) =>
          /\ last'.result % last'.align = 0
          /\ last'.result >= m_next
          /\ last'.result - m_next < last'.align
          /\ m_next' = last'.result + last'.bytes]_vars

C2_Witness ==
    /\ last.op = "allocate" /\ last.status = "ok"
    /\ last.bytes > 0 /\ last.align = 8
    /\ m_begin = 5 /\ last.result = 8 /\ issued = <<8, last.bytes>>

\* C3: with no reset in between, successful allocations return non-decreasing
\* addresses and ranges that do not overlap: the range issued before ends at
\* or below the address issued now.
C3_NoOverlap ==
    [][(AllocateStep /\ last'.status = "ok" /\ issued # << >>) =>
          /\ issued[1] <= last'.result
          /\ issued[1] + issued[2] <= last'.result]_vars

C3_Witness ==
    /\ last.op = "allocate" /\ last.status = "ok" /\ last.bytes > 0
    /\ m_begin = 0 /\ last.result > 0

\* C4: on a parent without reallocate, an allocate whose aligned start plus
\* size exceeds the end fails with std::bad_alloc and leaves size() and
\* capacity() as they were.
C4_FixedOutOfMemory ==
    [][(AllocateStep /\ ~parentType.realloc /\ m_begin + Needed > m_end) =>
          /\ last'.status = "std::bad_alloc"
          /\ size' = size
          /\ capacity' = capacity]_vars

\* Capacity 23, usage 17: allocate(4, 4) has failed, though 6 bytes remain.
C4_Witness ==
    /\ ~parentType.realloc /\ capacity = 23 /\ size = 17
    /\ last.op = "allocate" /\ last.status = "std::bad_alloc"
    /\ last.bytes = 4 /\ last.align = 4

\* C5 as stated: a failed allocate leaves the cursor, the end and the
\* parent's reserved size as they were.
C5_FailedAllocateChangesNothing ==
    [][(AllocateStep /\ last'.status # "ok") =>
          /\ m_next' = m_next
          /\ m_end' = m_end
          /\ m_parent'.size = m_parent.size]_vars

\* C5, amended: a failed allocate leaves the cursor and the end as they were,
\* and the parent's reserved size too unless the failure is the address
\* check: then the parent has already resized the block it moved.
C5_FailedAllocateKeepsArena ==
    [][(AllocateStep /\ last'.status # "ok") =>
          /\ m_next' = m_next
          /\ m_end' = m_end
          /\ last'.site # "address" => m_parent'.size = m_parent.size]_vars

C5_Witness ==
    /\ last.op = "allocate" /\ last.status # "ok" /\ last.site = "parent"
    /\ last.bytes > 0 /\ m_next = m_end

\* C6: when reallocate returns another address during allocate, allocate
\* fails, size() and capacity() are as before the call and the arena keeps
\* its base.
C6_AddressChangedFails ==
    [][(AllocateStep /\ last'.outcome = "moved") =>
          /\ last'.status # "ok"
          /\ last'.site = "address"
          /\ size' = size
          /\ capacity' = capacity
          /\ m_begin' = m_begin
          /\ m_begin' # m_parent'.addr]_vars

C6_Witness ==
    /\ last.op = "allocate" /\ last.outcome = "moved"
    /\ m_parent.addr # m_begin /\ m_parent.size # capacity

C8_GrowsToNeededOrDouble ==
    [][(AllocateStep /\ ~parentType.hasMax /\ last'.request # NoCall) =>
          last'.request = Max(Needed, 2 * capacity)]_vars

\* C9 as stated: after every completed operation capacity() is the
\* parent's reserved size.
C9_CapacityIsReservedSize == last.status = "ok" => capacity = m_parent.size

\* C9, amended: after every completed operation capacity() is the parent's
\* reserved size, as long as the parent's block is still at the arena's base
\* (the last reallocate did not return another address).
C9_CapacityIsReservedSizeInPlace ==
    (last.status = "ok" /\ m_parent.addr = m_begin) => capacity = m_parent.size

C9_Witness ==
    /\ last.op = "allocate" /\ last.status = "ok" /\ last.outcome = "same"
    /\ capacity > 0 /\ m_parent.addr = m_begin

\* C10: on a parent that declares max_size(), an allocate whose needed total
\* exceeds it fails with std::bad_alloc and leaves size() and capacity() as
\* they were.
C10_BeyondMaxSizeFails ==
    [][(AllocateStep /\ parentType.hasMax /\ Needed > parentType.max) =>
          /\ last'.status = "std::bad_alloc"
          /\ size' = size
          /\ capacity' = capacity]_vars

\* C11: when allocate grows a block on a parent that declares max_size(), and
\* max(needed, 2 * capacity()) exceeds max_size() while size() is below it,
\* the parent is asked for exactly max_size().
C11_ClampsToMaxSize ==
    [][(/\ AllocateStep /\ parentType.hasMax /\ last'.request # NoCall
        /\ Max(Needed, 2 * capacity) > parentType.max
        /\ size < parentType.max) =>
          last'.request = parentType.max]_vars

\* C12: allocate(0, align) leaves size() as it was and returns the cursor as
\* it was before the call, not rounded up.
C12_ZeroBytesIsNoOp ==
    [][(AllocateStep /\ last'.bytes = 0) =>
          /\ size' = size
          /\ last'.status = "ok" => last'.result = m_next]_vars

\* C13: allocate(0, align) always returns, without std::bad_alloc and without
\* a call to the parent, also when the cursor is at the end of the block or
\* rounds up to an address beyond it.
C13_ZeroBytesAlwaysSucceeds ==
    [][(AllocateStep /\ last'.bytes = 0) =>
          /\ last'.status = "ok"
          /\ last'.request = NoCall
          /\ m_parent' = m_parent]_vars

\* C14: reset() sets size() to 0 and leaves capacity(), the base and the
\* parent's block as they were, without a call to the parent.
C14_ResetRewindsOnly ==
    [][last'.op = "reset" =>
          /\ size' = 0
          /\ capacity' = capacity
          /\ m_begin' = m_begin
          /\ m_parent' = m_parent
          /\ last'.request = NoCall]_vars

\* reset() after allocations, on a block that has grown.
C14_Witness ==
    /\ last.op = "reset" /\ size = 0 /\ capacity > 0
    /\ parentType.realloc /\ m_parent.size = 8

\* C15: after reset(), the calls of the first run made again in the same
\* order return the addresses they returned the first time, also when the
\* first run grew the block: a replayed call returns unless the parent
\* refuses or moves the block, and returns the recorded address.
C15_ReplayReturnsSameAddresses ==
    [][(pos >= 1 /\ AllocateStep /\ last'.outcome \in {"none", "same"}) =>
          /\ last'.status = "ok"
          /\ last'.result = run[pos][3]]_vars

\* The second call of a run that grew the block to 8 bytes is replayed.
C15_Witness ==
    /\ pos = 3 /\ last.op = "allocate" /\ last.status = "ok"
    /\ last.result = run[2][3] /\ last.result > m_begin
    /\ parentType.realloc /\ capacity = 8

\* C16: a truncate() that returns, from any state (size() = 0 after reset()
\* included), leaves size() as it was and makes capacity() equal to size(),
\* with the parent's block resized to that same value.
C16_TruncateToSize ==
    [][(last'.op = "truncate" /\ last'.status = "ok") =>
          /\ size' = size
          /\ capacity' = size'
          /\ m_parent'.size = size'
          /\ last'.request = size]_vars

\* truncate() with 5 bytes in use.
C16_Witness ==
    /\ last.op = "truncate" /\ last.status = "ok"
    /\ size = 5 /\ capacity = 5 /\ m_parent.size = 5

\* C17: deallocate(p, bytes) returns for every argument and leaves the cursor,
\* the end and the parent's block as they were; the bytes it names, when they
\* lie below the cursor, are not returned by the allocate that follows.
C17_DeallocateIsNoOp ==
    [][/\ last'.op = "deallocate" =>
             /\ last'.status = "ok"
             /\ m_next' = m_next /\ m_end' = m_end /\ m_begin' = m_begin
             /\ m_parent' = m_parent
             /\ last'.request = NoCall
       /\ (/\ last.op = "deallocate" /\ last.result + last.bytes <= m_next
           /\ AllocateStep /\ last'.status = "ok") =>
             last'.result >= last.result + last.bytes]_vars

\* A container that went from a range of 4 bytes to one of 8 has passed the
\* first to deallocate: size() is 12.
C17_Witness ==
    /\ last.op = "deallocate" /\ last.result = m_begin /\ last.bytes = 4
    /\ issued = <<m_begin + 4, 8>> /\ size = 12

\* C18: the cursor is never lower after a step than before it, unless the
\* step is reset(): allocate, returning or throwing, deallocate and truncate
\* never move it backwards.
C18_CursorNonDecreasing ==
    [][last'.op # "reset" => m_next' >= m_next]_vars

\* allocate has thrown with the cursor inside the block, one byte below its end.
C18_Witness ==
    /\ last.op = "allocate" /\ last.status # "ok" /\ last.site = "overflow"
    /\ m_next > m_begin /\ m_next + 1 = m_end

\* C19: a move (construction or assignment) gives the destination the
\* source's size() and capacity(), and the destination's next allocate
\* returns the address the source would have returned: its cursor before the
\* move, rounded up to align.
C19_MoveTransfersArena ==
    [][/\ last'.op \in {"move-construct", "move-assign"} =>
             /\ size' = size /\ capacity' = capacity /\ m_begin' = m_begin
       /\ (/\ last.op \in {"move-construct", "move-assign"}
           /\ AllocateStep /\ last'.status = "ok") =>
             last'.result = SmallestMultipleAtOrAbove(other.m_next, last'.align)]_vars

\* allocate(4, 4), a move, allocate(4, 4): the second address is the first
\* plus 4.
C19_Witness ==
    /\ other.state = "moved-from" /\ other.m_next = other.m_begin + 4
    /\ last.op = "allocate" /\ last.status = "ok" /\ last.bytes = 4 /\ last.align = 4
    /\ last.result = other.m_begin + 4 /\ size = 8

\* C20: no two arena objects hold the same block: a moved-from arena no
\* longer has the block's address, and destroying it calls nothing on the
\* block.
C20_OneOwnerPerBlock ==
    /\ other.state \in {"live", "moved-from"} => other.m_begin # m_begin
    /\ released.main = 0

\* C26: an allocate whose aligned start plus size is at most the end of the
\* block, the end itself included, returns and makes no call to the parent:
\* capacity() and the parent's block are as before, with or without reallocate.
C26_FittingAllocateCallsNothing ==
    [][(AllocateStep /\ m_begin + Needed <= m_end) =>
          /\ last'.status = "ok"
          /\ last'.request = NoCall
          /\ capacity' = capacity
          /\ m_parent' = m_parent]_vars

\* An allocate of 4 bytes has filled a block that can grow up to its end.
C26_Witness ==
    /\ last.op = "allocate" /\ last.status = "ok" /\ last.bytes = 4
    /\ last.request = NoCall /\ m_next = m_end /\ parentType.realloc
    /\ m_parent.size = capacity

\* C27: allocate calls the parent's reallocate at most once and does not try
\* again: when the call is refused the parent's block is as before and
\* allocate has failed, when it moved the block allocate has failed, when it
\* returned the same address the block has the size asked for and allocate
\* has returned; reset and deallocate call nothing.
C27_OneGrowCallNoRetry ==
    [][/\ AllocateStep =>
             /\ last'.outcome \in {"none", "throw"} => m_parent' = m_parent
             /\ last'.outcome \in {"throw", "moved"} => last'.status # "ok"
             /\ last'.outcome = "same" =>
                   /\ m_parent' = [size |-> last'.request, addr |-> m_begin]
                   /\ last'.status = "ok"
             /\ last'.outcome = "none" <=> last'.request = NoCall
       /\ last'.op \in {"reset", "deallocate"} =>
             /\ m_parent' = m_parent
             /\ last'.request = NoCall]_vars

\* The parent has refused to grow a block of 4 bytes that was full.
C27_Witness ==
    /\ last.op = "allocate" /\ last.outcome = "throw" /\ last.status # "ok"
    /\ last.request = 8 /\ m_parent.size = 4 /\ size = 4

\* C28: on a parent with reallocate and capacity() 0, an allocate of more
\* than 0 bytes that the parent serves in place returns and asks the parent
\* for exactly the needed total; size() and capacity() are then that total,
\* the padding plus the bytes asked for.
C28_GrowsFromEmptyToNeeded ==
    [][(/\ AllocateStep /\ parentType.realloc /\ capacity = 0 /\ size = 0
        /\ last'.bytes > 0 /\ last'.outcome = "same"
        /\ parentType.hasMax => Needed <= parentType.max) =>
          /\ last'.status = "ok"
          /\ last'.request = Needed
          /\ size' = Needed
          /\ capacity' = Needed]_vars

\* C30: when the parent's reallocate called by truncate() returns another
\* address, truncate() throws and size() and capacity() are as before.
C30_TruncateAddressChangedFails ==
    [][(last'.op = "truncate" /\ last'.outcome = "moved") =>
          /\ last'.status = "std::bad_alloc"
          /\ last'.site = "address"
          /\ size' = size
          /\ capacity' = capacity
          /\ m_begin' = m_begin]_vars

\* truncate() of an arena with 4 of 8 bytes in use, the block was moved.
C30_Witness ==
    /\ last.op = "truncate" /\ last.outcome = "moved"
    /\ size = 4 /\ capacity = 8 /\ m_parent.size = 4 /\ m_parent.addr # m_begin

\* Every arena object has been destroyed.
AllDestroyed == ~alive /\ other.state \in {"none", "destroyed"}

\* C21: every block the parent handed out is released exactly once by the
\* time all arenas are destroyed: no block is released more often than it
\* was acquired (a moved-from arena releases nothing), and none is left
\* unreleased (the block a move assignment overwrites included).
C21_EachBlockReleasedOnce ==
    /\ released.main <= acquired.main
    /\ released.other <= acquired.other
    /\ AllDestroyed => released = acquired

\* C29: no call to the parent's allocate, reallocate or deallocate passes a
\* byte count of 0, whether made by a constructor, allocate, truncate() or a
\* destructor.
C29_NoZeroByteParentCall == last.request # 0

\* The step just taken was an allocate call made through a view or a helper.
ViewStep == calls' = calls + 1

\* C22: two views compare equal exactly when they were made of the same
\* arena object (a view of another element type is compared after rebinding
\* it); views of two different arenas are unequal also when the arenas have
\* the same begin, cursor and end.
C22_ViewsEqualIffSameArena ==
    \A i \in DOMAIN views : \A j \in DOMAIN views :
        ViewEquals(ViewRebind(views[i], views[j].T), views[j]) <=> views[i].of = views[j].of

\* Views of two arenas whose members are the same after both have allocated.
C22_Witness ==
    /\ Len(views) = 2
    /\ views[1].of = "this"
    /\ views[2].of = "other"
    /\ calls = 2
    /\ m_next # m_begin
    /\ <<other.m_begin, other.m_next, other.m_end>> = <<m_begin, m_next, m_end>>
    /\ ~ViewEquals(views[1], views[2])

\* C23: copying or rebinding a view brings no new arena into existence, the
\* new view refers to the arena the old one refers to; an allocate(n) through
\* a view made of the arena, however it was derived, is that arena's
\* allocate(n * sizeof(T), alignof(T)); and every allocate of the arena,
\* called directly, through a view or by create::array, starts at the cursor
\* the call before left and leaves it behind the bytes it returned (where it
\* was, when it threw).
C23_ViewsShareOneCursor ==
    [][/\ (Len(views') = Len(views) + 1 /\ last'.op \in {"view-copy", "view-rebind"})
            => /\ acquired' = acquired
               /\ other' = other
               /\ <<m_begin', m_next', m_end'>> = <<m_begin, m_next, m_end>>
               /\ \E i \in DOMAIN views :
                      /\ views'[Len(views')].m_resource = views[i].m_resource
                      /\ views'[Len(views')].of = views[i].of
       /\ (ViewStep /\ via'.how = "view" /\ views[via'.view].of = "this")
            => /\ AllocateStep
               /\ acquired' = acquired
               /\ other' = other
               /\ last'.align = views[via'.view].T.align
               /\ last'.bytes % views[via'.view].T.size = 0
       /\ (ViewStep /\ AllocateStep)
            => IF last'.status = "ok"
               THEN /\ last'.result = SmallestMultipleAtOrAbove(m_next, last'.align)
                    /\ m_next' = last'.result + last'.bytes
               ELSE m_next' = m_next]_vars

\* The second of two calls went through a copy of the first view and got
\* memory behind what the first call had taken.
C23_Witness ==
    /\ Len(views) = 2
    /\ views[1].of = "this"
    /\ views[2] = views[1]
    /\ calls = 2
    /\ via.how = "view"
    /\ via.view = 2
    /\ last.status = "ok"
    /\ last.bytes > 0
    /\ last.result > m_begin

\* C24: when the allocate inside create::array throws, no element has been
\* constructed and size() and capacity() are what they were before the call.
C24_FailedAllocateBuildsNothing ==
    [][(ViewStep /\ via'.how \in {"array", "array-from-range"} /\ AllocateStep
            /\ last'.status # "ok")
        => /\ built' = << >>
           /\ size' = size
           /\ capacity' = capacity]_vars

\* A create::array that failed after an earlier one had built its elements.
C24_Witness ==
    /\ via.how \in {"array", "array-from-range"}
    /\ last.op = "allocate"
    /\ last.status # "ok"
    /\ calls = 2
    /\ m_next # m_begin
    /\ built = << >>

\* The first k elements of ints, added up.
RECURSIVE PrefixSum(_, _)
PrefixSum(ints, k) == IF k = 0 THEN 0 ELSE PrefixSum(ints, k - 1) + ints[k]

C35_BaseFixedIssuedInside ==
    [][/\ m_begin' = m_begin
       /\ issued' # << >> =>
             /\ m_begin' <= issued'[1]
             /\ issued'[1] + issued'[2] <= m_end']_vars

\* C37: on a parent with reallocate and without max_size() whose reallocate
\* returns the same address, allocate returns, and the range it returned ends
\* no later than the block.
C37_GrowableNeverFails ==
    [][(AllocateStep /\ parentType.realloc /\ ~parentType.hasMax
            /\ last'.outcome \in {"none", "same"})
        => /\ last'.status = "ok"
           /\ last'.result + last'.bytes <= m_end']_vars

\* C36: with addresses of AddrBits bits, an allocate that returns has
\* returned a range inside the block, beginAddress <= address and
\* address + size <= endAddress as integers; and a request whose aligned
\* start plus size is beyond the highest address throws and leaves the
\* cursor no lower than it was.
C36_NoWrapAround ==
    [][AllocateStep =>
          /\ last'.status = "ok" =>
                /\ m_begin <= last'.result
                /\ last'.result + last'.bytes <= m_end'
          /\ SmallestMultipleAtOrAbove(m_next, last'.align) + last'.bytes > AddrSpace - 1 =>
                /\ last'.status # "ok"
                /\ m_next' >= m_next]_vars

C34_ElementsAreBytesOfTheArena ==
    [][(ViewStep /\ AllocateStep /\ via'.how \in {"view", "object", "array"}) =>
          /\ last'.bytes = via'.count * via'.elem.size
          /\ last'.align = via'.elem.align
          /\ last'.status = "ok" =>
                size' = size + (SmallestMultipleAtOrAbove(m_next, via'.elem.align) - m_next)
                             + via'.count * via'.elem.size]_vars

\* One int, then one double through a view: 4 bytes, 4 of padding, 8 bytes.
C34_Witness ==
    /\ calls = 2
    /\ via.how = "object"
    /\ via.view > 0
    /\ via.elem = DoubleType
    /\ last.status = "ok"
    /\ last.result = m_begin + 8
    /\ size = 4 + 4 + 8

====
